---- MODULE Spec2Model ----
(***************************************************************************)
(* Model of the chat session engine of src/src/content/content.tsx:        *)
(* the ChatBox component (input buffer, conversation store, one turn per   *)
(* submit) and the ContentPage host (cached credential, chat box toggle).  *)
(*                                                                         *)
(* Texts are sequences of tokens (a token is an indivisible piece of       *)
(* text), so that concatenation is \o and "length = 0" is Len(..) = 0.     *)
(* An optional JavaScript value is None (undefined / null) or Some(v).     *)
(* Each event handler and each continuation of an async function (the code *)
(* between two awaits) is one atomic action, and a handler sees the state  *)
(* of the render that is committed when it runs.                           *)
(***************************************************************************)
EXTENDS Integers, Sequences, FiniteSets, TLC

VARIABLES
    value,            \* ChatBox: the input buffer (useState(''))
    chatHistory,      \* ChatBox: the conversation store (useState([]))
    turns,            \* one record per call of handleGenerateAIResponse
    apiKey,           \* chrome.storage.local 'apiKey'
    viewLines,        \* host page: text of the '.view-line' elements
    languageButton,   \* host page: text of the language selector, if any
    chatboxExpanded,  \* ContentPage: useState(false)
    openApiKey,       \* ContentPage: cached credential, useState(null)
    showApiKeyPopup,  \* ContentPage: useState(false)
    fetchPending,     \* ContentPage: fetchApiKey() has not resolved yet
    lastEnded,        \* the turn that ended last, and what the page saw of it
    mounted,          \* ContentPage is mounted
    mounts,           \* how many times ContentPage has been mounted
    listeners         \* chrome.storage.onChanged: the registered listeners

vars == <<value, chatHistory, turns, apiKey, viewLines, languageButton,
          chatboxExpanded, openApiKey, showApiKeyPopup, fetchPending,
          lastEnded, mounted, mounts, listeners>>

chatBoxVars == <<value, chatHistory, turns, lastEnded>>
pageVars == <<chatboxExpanded, openApiKey, showApiKeyPopup, fetchPending>>
hostVars == <<viewLines, languageButton>>
mountVars == <<mounted, mounts, listeners>>

\* ---------------------------------------------------------------- bounds

\* Number of submits accepted in one session.
MaxTurns == 2

\* ContentPage is mounted at most this many times.
MaxMounts == 3

TurnIds == 1..MaxTurns

\* ------------------------------------------------------- optional values

None == <<>>
Some(v) == <<v>>
IsSome(x) == Len(x) = 1
Get(x) == x[1]

\* ------------------------------------------------------------ input sets

\* What the user can have in the input box: nothing, or a text. The code
\* looks at nothing but the length of a text, so the one text is taken to
\* be the least favourable one, a single blank.
Texts == {<<>>, <<" ">>}

\* What chrome.storage.local can hold under 'apiKey'.
ApiKeys == {None, Some(""), Some("sk-1")}

\* What the host page can show: the text of its '.view-line' elements, and
\* its language selector (absent, present without text, present with text).
\* The one-line program is a shell script that prints its process id.
Documents == {
    [viewLines |-> <<>>, languageButton |-> None],
    [viewLines |-> << <<"echo ", "$$">> >>, languageButton |-> Some(<<>>)],
    [viewLines |-> << <<"a = 1">>, <<"b = 2">> >>, languageButton |-> Some(<<"Python">>)]
}

\* ------------------------------------------------------------- JS values

JNull == [t |-> "null"]
JNum(n) == [t |-> "number", n |-> n]
JStr(s) == [t |-> "string", s |-> s]
JArr(a) == [t |-> "array", a |-> a]
JObj(o) == [t |-> "object", o |-> o]

\* `v.k` for a value v that is not null: the own property, else undefined.
Prop(v, k) ==
    IF v.t = "object" /\ k \in DOMAIN v.o THEN Some(v.o[k]) ELSE None

\* `k in v` throws a TypeError unless v is an object (arrays included).
InThrows(v) == v.t \notin {"object", "array"}
In(k, v) == v.t = "object" /\ k \in DOMAIN v.o

\* `v.k` throws a TypeError when v is null (undefined cannot come from JSON).
PropThrows(v) == v.t = "null"

\* JavaScript truthiness of an optional string / text.
FalsyKey(k) == ~IsSome(k) \/ Get(k) = ""

\* ------------------------------------------------------------ JSON.parse

\* The message contents the provider is taken to return.
Contents == {
    "",
    "not-json",
    "null",
    "5",
    "{}",
    "{\"output\":null}",
    "{\"output\":5}",
    "{\"output\":{}}",
    "{\"output\":{\"feedback\":\"f\",\"hints\":[\"try X\"],\"snippet\":\"s\",\"programmingLanguage\":\"Python\"}}"
}

\* JSON.parse throws a SyntaxError on a text that is not JSON.
JSONparseThrows(s) == s \in {"", "not-json"}

\* JSON.parse on the texts of Contents that are JSON.
JSONparse(s) ==
    CASE s = "null" -> JNull
      [] s = "5" -> JNum(5)
      [] s = "{}" -> JObj(<<>>)
      [] s = "{\"output\":null}" -> JObj([output |-> JNull])
      [] s = "{\"output\":5}" -> JObj([output |-> JNum(5)])
      [] s = "{\"output\":{}}" -> JObj([output |-> JObj(<<>>)])
      [] s = "{\"output\":{\"feedback\":\"f\",\"hints\":[\"try X\"],\"snippet\":\"s\",\"programmingLanguage\":\"Python\"}}" ->
            JObj([output |-> JObj([feedback |-> JStr("f"),
                                   hints |-> JArr(<<JStr("try X")>>),
                                   snippet |-> JStr("s"),
                                   programmingLanguage |-> JStr("Python")])])

\* What `await openai.chat.completions.create(..)` can come back with: a
\* rejection, or a response whose first choice has content null or a text.
Responses ==
    {[ok |-> FALSE, content |-> None]}
    \cup {[ok |-> TRUE, content |-> c] : c \in {None} \cup {Some(s) : s \in Contents}}

\* ------------------------------------------------- context and prompt

\* String.prototype.replace(pattern, replacement) with a string pattern:
\* only the first occurrence is replaced, and the replacement string is
\* expanded ($$ is "$", $& the match, $` what precedes it, $' what follows).
FirstIndex(s, tok) ==
    IF \E i \in 1..Len(s) : s[i] = tok
    THEN CHOOSE i \in 1..Len(s) : s[i] = tok /\ \A j \in 1..(i - 1) : s[j] # tok
    ELSE 0

RECURSIVE Expand(_, _, _, _)
Expand(rep, match, before, after) ==
    IF rep = <<>> THEN <<>>
    ELSE (CASE Head(rep) = "$$" -> <<"$">>
            [] Head(rep) = "$&" -> <<match>>
            [] Head(rep) = "$`" -> before
            [] Head(rep) = "$'" -> after
            [] OTHER -> <<Head(rep)>>)
         \o Expand(Tail(rep), match, before, after)

replaceFirst(s, pattern, replacement) ==
    LET i == FirstIndex(s, pattern) IN
    IF i = 0 THEN s
    ELSE LET before == SubSeq(s, 1, i - 1)
             after == SubSeq(s, i + 1, Len(s))
         IN before \o Expand(replacement, pattern, before, after) \o after

\* A call of `.replace`: the receiver and the replacement are evaluated
\* once, before the call.
Replace(s, pattern, replacement) ==
    CHOOSE r \in {replaceFirst(v, pattern, w) : v \in {s}, w \in {replacement}} :
        TRUE

\* '@/constants/prompt': a fixed template with the three placeholders.
SYSTEM_PROMPT ==
    <<"Problem: ", "{{problem_statement}}",
      " Language: ", "{{programming_language}}",
      " Code: ", "{{user_code}}">>

\* The context ContentPage passes to ChatBox.
problemStatement == <<"Enter your problem statement here">>

\* './util' extractCode: the lines' texts, in DOM order, joined by newline.
RECURSIVE extractCode(_)
extractCode(lines) ==
    IF lines = <<>> THEN <<>>
    ELSE IF Len(lines) = 1 THEN Head(lines)
    ELSE Head(lines) \o <<"\n">> \o extractCode(Tail(lines))

\* 'UNKNOWN' unless the language selector exists and has text.
programmingLanguage(button) ==
    IF IsSome(button) /\ Len(Get(button)) # 0 THEN Get(button) ELSE <<"UNKNOWN">>

systemPromptModified(button, extractedCode) ==
    Replace(Replace(Replace(SYSTEM_PROMPT,
                            "{{problem_statement}}", problemStatement),
                    "{{programming_language}}", programmingLanguage(button)),
            "{{user_code}}", extractedCode)

\* ------------------------------------------------------------- ChatBox

\* Mutant: the entry is built from the input after it was cleared.
UserEntryOfClearedInput(text) ==
    [role |-> "user", message |-> <<>>, type |-> "text",
     assistantResponse |-> None]

UserEntry(text) ==
    [role |-> "user", message |-> text, type |-> "text",
     assistantResponse |-> None]

\* Mutant: the entry's message is the reply's feedback, when it has one.
AssistantEntryWithFeedback(output) ==
    [role |-> "assistant",
     message |-> IF IsSome(Prop(output, "feedback"))
                 THEN <<Get(Prop(output, "feedback")).s>>
                 ELSE <<"NA">>,
     type |-> "markdown",
     assistantResponse |->
        Some([feedback |-> Prop(output, "feedback"),
              hints |-> Prop(output, "hints"),
              snippet |-> Prop(output, "snippet"),
              programmingLanguage |-> Prop(output, "programmingLanguage")])]

\* The entry of lines 109-119, from the `output` of a parsed reply.
AssistantEntry(output) ==
    [role |-> "assistant", message |-> <<"NA">>, type |-> "markdown",
     assistantResponse |->
        Some([feedback |-> Prop(output, "feedback"),
              hints |-> Prop(output, "hints"),
              snippet |-> Prop(output, "snippet"),
              programmingLanguage |-> Prop(output, "programmingLanguage")])]

\* A call of handleGenerateAIResponse. While it runs: where it stands (pc),
\* the `value` and `chatHistory` of the render it was created in (it reads
\* them after its awaits), the `prev` its submit appended the user entry to,
\* and the request it has in flight. Nothing of it is left when it has
\* returned or thrown.
NoTurn ==
    [pc |-> "unused", value |-> <<>>, chatHistory |-> <<>>, prev |-> <<>>,
     request |-> None]

\* Mutant: a call that has returned is still awaiting its provider call.
stillAwaiting ==
    [pc |-> "provider", value |-> <<>>, chatHistory |-> <<>>, prev |-> <<>>,
     request |-> None]

ended ==
    [pc |-> "done", value |-> <<>>, chatHistory |-> <<>>, prev |-> <<>>,
     request |-> None]

\* What is seen of a turn when it ends: how it ended, whether it had called
\* the provider, whether it showed the alert of line 59, and whether its
\* promise was rejected, which nothing handles (line 133 neither awaits nor
\* catches).
NoEnd ==
    [outcome |-> "none", called |-> FALSE, alert |-> FALSE,
     rejected |-> FALSE]

started == {t \in TurnIds : turns[t].pc # "unused"}
inFlight == {t \in TurnIds : turns[t].pc \in {"lookup", "provider"}}

\* Mutant: `[entry, ...prev]`.
prepend(history, entry) == <<entry>> \o history

\* `[...prev, entry]`: the only way the store is ever written.
append(history, entry) == Append(history, entry)

\* Mutant: the form's onSubmit without its guard.
submitNeverIgnored(text) == FALSE

\* The guard of the form's onSubmit (line 205).
submitIgnored(text) == Len(text) = 0

\* Lines 126-134: append the user entry, clear the input, start the turn.
\* The turn is the closure of this render, so it keeps this render's
\* `value` and `chatHistory`.
onSendMessage(t) ==
    /\ chatHistory' = append(chatHistory, UserEntry(value))
    /\ value' = <<>>
    /\ turns' = [turns EXCEPT ![t] =
                    [pc |-> "lookup", value |-> value,
                     chatHistory |-> chatHistory, prev |-> chatHistory,
                     request |-> None]]

\* Lines 203-208: the form is rendered only while the chat box is visible.
onSubmit ==
    /\ chatboxExpanded
    /\ IF submitIgnored(value)
       THEN UNCHANGED chatBoxVars
       ELSE /\ Cardinality(started) < MaxTurns
            /\ onSendMessage(Cardinality(started) + 1)
            /\ UNCHANGED lastEnded
    /\ UNCHANGED <<apiKey, hostVars, pageVars, mountVars>>

\* Line 217: typing in the input box.
onChange(text) ==
    /\ chatboxExpanded
    /\ value' = text
    /\ UNCHANGED <<chatHistory, turns, lastEnded, apiKey, hostVars, pageVars, mountVars>>

\* Lines 89-95: the history replayed to the provider.
historyMessages(history) ==
    [i \in 1..Len(history) |->
        [role |-> history[i].role, content |-> history[i].message]]

\* Line 98: the content of the final user message.
userTurnContent(userMessage, extractedCode) ==
    <<"User Prompt: ">> \o userMessage \o <<"\n\nCode: ">> \o extractedCode

\* Mutant: the request is built from the live input buffer and store, not
\* from the values the turn was created with.
requestMessagesLive(tr) ==
    LET extractedCode == extractCode(viewLines) IN
    <<[role |-> "system",
       content |-> systemPromptModified(languageButton, extractedCode)]>>
    \o historyMessages(chatHistory)
    \o <<[role |-> "user",
          content |-> userTurnContent(value, extractedCode)]>>

\* Lines 87-100, for the turn record tr.
requestMessages(tr) ==
    LET extractedCode == extractCode(viewLines) IN
    <<[role |-> "system",
       content |-> systemPromptModified(languageButton, extractedCode)]>>
    \o historyMessages(tr.chatHistory)
    \o <<[role |-> "user",
          content |-> userTurnContent(tr.value, extractedCode)]>>

\* Mutant: only a missing key stops the turn, an empty one does not.
credentialUndefined(key) == ~IsSome(key)

\* Line 59: the turn stops here when the stored key is missing or empty.
credentialMissing(key) == FalsyKey(key)

\* Mutant: the abort also takes the turn's user entry back.
abortTurnAndRollBack(t) ==
    /\ lastEnded' = [outcome |-> "credentialMissing",
                     called |-> FALSE, alert |-> TRUE, rejected |-> FALSE]
    /\ turns' = [turns EXCEPT ![t] = ended]
    /\ chatHistory' = turns[t].prev

\* Line 59: `return alert(..)`; the turn is over, nothing else is touched.
abortTurn(t) ==
    /\ lastEnded' = [outcome |-> "credentialMissing",
                     called |-> FALSE, alert |-> TRUE, rejected |-> FALSE]
    /\ turns' = [turns EXCEPT ![t] = ended]
    /\ chatHistory' = chatHistory

\* Lines 61-101: build the client with the key, read the page, send.
callProvider(t) ==
    /\ lastEnded' = lastEnded
    /\ turns' = [turns EXCEPT
            ![t].pc = "provider",
            ![t].request = Some([apiKey |-> Get(apiKey),
                                 messages |-> requestMessages(turns[t])])]
    /\ chatHistory' = chatHistory

\* Lines 55-101: chrome.storage.local.get resolves; without a key the turn
\* alerts and ends, with one it reads the page and calls the provider.
credentialLookupReturns(t) ==
    /\ turns[t].pc = "lookup"
    /\ IF credentialMissing(apiKey) THEN abortTurn(t) ELSE callProvider(t)
    /\ UNCHANGED <<value, apiKey, hostVars, pageVars, mountVars>>

\* Lines 84-123 as a function of what the provider call comes back with:
\* how the turn ends.
replyOutcome(r) ==
    IF ~r.ok THEN "providerError"
    ELSE IF ~IsSome(r.content) \/ Get(r.content) = "" THEN "emptyCompletion"
    ELSE IF JSONparseThrows(Get(r.content)) THEN "malformedJson"
    ELSE LET result == JSONparse(Get(r.content)) IN
         IF InThrows(result) THEN "resultNotObject"
         ELSE IF ~In("output", result) THEN "missingOutput"
         ELSE IF PropThrows(result.o.output) THEN "outputNull"
         ELSE "replyParsed"

\* Mutant: `result.output?.feedback` without the `'output' in result` test,
\* so a JSON object without `output` gets an entry with an empty payload.
replyEntriesUnguarded(r) ==
    IF replyOutcome(r) = "replyParsed"
    THEN <<AssistantEntry(JSONparse(Get(r.content)).o.output)>>
    ELSE IF replyOutcome(r) = "missingOutput"
    THEN <<AssistantEntry(JNull)>>
    ELSE <<>>

\* Lines 103-120: the entries the reply adds to the store.
replyEntries(r) ==
    IF replyOutcome(r) = "replyParsed"
    THEN <<AssistantEntry(JSONparse(Get(r.content)).o.output)>>
    ELSE <<>>

\* The outcomes in which the async function throws: the rejected await of
\* line 84, the SyntaxError of line 104, the TypeErrors of lines 106 and 114.
Throwing == {"providerError", "malformedJson", "resultNotObject", "outputNull"}

\* Lines 84-124: the provider call resolves or rejects.
completionReturns(t, r) ==
    /\ turns[t].pc = "provider"
    /\ turns' = [turns EXCEPT ![t] = ended]
    /\ chatHistory' =
        IF replyEntries(r) = <<>> THEN chatHistory
        ELSE append(chatHistory, replyEntries(r)[1])
    /\ lastEnded' = [outcome |-> replyOutcome(r), called |-> TRUE,
                     alert |-> FALSE, rejected |-> replyOutcome(r) \in Throwing]
    /\ UNCHANGED <<value, apiKey, hostVars, pageVars, mountVars>>

\* ---------------------------------------------------------- ContentPage

\* `x || null` on a stored key.
orNull(key) == IF FalsyKey(key) THEN None ELSE key

\* Lines 236-241: the key read at mount arrives.
fetchApiKey ==
    /\ fetchPending
    /\ fetchPending' = FALSE
    /\ openApiKey' = orNull(apiKey)
    /\ UNCHANGED <<chatBoxVars, apiKey, hostVars, chatboxExpanded, showApiKeyPopup, mountVars>>

\* The function objects chrome.storage.onChanged is called with: the arrow
\* function of line 244 that mount n registers, and the arrow function of
\* line 252 that the cleanup of mount n creates.
changeListener(n) == <<"listener", n>>
cleanupArrow(n) == <<"cleanup", n>>

\* chrome.storage.onChanged.addListener / removeListener: by identity.
addListener(registered, fn) == registered \cup {fn}
removeListener(registered, fn) == registered \ {fn}

\* The key is set or removed elsewhere; every registered listener runs
\* (lines 244-248). The one of the mounted view sets its openApiKey; the
\* ones of views torn down call the setter of a view that is gone.
storageChanged(key) ==
    /\ key # apiKey
    /\ apiKey' = key
    /\ openApiKey' = IF mounted /\ changeListener(mounts) \in listeners
                     THEN orNull(key) ELSE openApiKey
    /\ UNCHANGED <<chatBoxVars, hostVars, chatboxExpanded, showApiKeyPopup, fetchPending, mountVars>>

\* Mutant: the cleanup removes the listener the effect registered.
cleanupRemovesListener(n) == removeListener(listeners, changeListener(n))

\* Lines 251-253: the effect's cleanup, for mount n.
cleanup(n) == removeListener(listeners, cleanupArrow(n))

\* ContentPage is torn down: the effect's cleanup runs and the state of the
\* view, ChatBox included, is gone. Calls of handleGenerateAIResponse that
\* are pending are not cancelled.
unmount ==
    /\ mounted
    /\ mounted' = FALSE
    /\ listeners' = cleanup(mounts)
    /\ chatboxExpanded' = FALSE
    /\ openApiKey' = None
    /\ showApiKeyPopup' = FALSE
    /\ fetchPending' = FALSE
    /\ value' = <<>>
    /\ chatHistory' = <<>>
    /\ UNCHANGED <<turns, lastEnded, apiKey, hostVars, mounts>>

\* Lines 230-254: ContentPage is mounted again: fresh state, and the effect
\* starts fetchApiKey and registers a new listener.
mount ==
    /\ ~mounted
    /\ mounts < MaxMounts
    /\ mounted' = TRUE
    /\ mounts' = mounts + 1
    /\ listeners' = addListener(listeners, changeListener(mounts + 1))
    /\ fetchPending' = TRUE
    /\ UNCHANGED <<chatBoxVars, apiKey, hostVars, chatboxExpanded, openApiKey, showApiKeyPopup>>

\* Mutant: the button toggles the chat box whether or not a key is cached.
handleButtonClickUngated ==
    /\ chatboxExpanded' = ~chatboxExpanded
    /\ UNCHANGED <<chatBoxVars, apiKey, hostVars, openApiKey, showApiKeyPopup, fetchPending, mountVars>>

\* Lines 256-262: the 'Ask AI' button.
handleButtonClick ==
    /\ mounted
    /\ IF FalsyKey(openApiKey)
       THEN showApiKeyPopup' = TRUE /\ UNCHANGED chatboxExpanded
       ELSE chatboxExpanded' = ~chatboxExpanded /\ UNCHANGED showApiKeyPopup
    /\ UNCHANGED <<chatBoxVars, apiKey, hostVars, openApiKey, fetchPending, mountVars>>

\* Line 286: the popup's Ok button.
closePopup ==
    /\ showApiKeyPopup
    /\ showApiKeyPopup' = FALSE
    /\ UNCHANGED <<chatBoxVars, apiKey, hostVars, chatboxExpanded, openApiKey, fetchPending, mountVars>>

\* ------------------------------------------------------------ host page

\* The user edits the code or picks another language on the host page.
hostPageChanges(doc) ==
    /\ <<doc.viewLines, doc.languageButton>> # <<viewLines, languageButton>>
    /\ viewLines' = doc.viewLines
    /\ languageButton' = doc.languageButton
    /\ UNCHANGED <<chatBoxVars, apiKey, pageVars, mountVars>>

\* -------------------------------------------------------- specification

Init ==
    /\ value = <<>>
    /\ chatHistory = <<>>
    /\ turns = [t \in TurnIds |-> NoTurn]
    /\ apiKey \in ApiKeys
    /\ \E doc \in Documents :
          viewLines = doc.viewLines /\ languageButton = doc.languageButton
    /\ chatboxExpanded = FALSE
    /\ openApiKey = None
    /\ showApiKeyPopup = FALSE
    /\ fetchPending = TRUE
    /\ lastEnded = NoEnd
    /\ mounted = TRUE
    /\ mounts = 1
    /\ listeners = addListener({}, changeListener(1))

Next ==
    \/ onSubmit
    \/ \E text \in Texts : onChange(text)
    \/ \E t \in TurnIds : credentialLookupReturns(t)
    \/ \E t \in TurnIds, r \in Responses : completionReturns(t, r)
    \/ fetchApiKey
    \/ \E key \in ApiKeys : storageChanged(key)
    \/ handleButtonClick
    \/ closePopup
    \/ \E doc \in Documents : hostPageChanges(doc)

Spec == Init /\ [][Next]_vars

\* The life of ContentPage alone: the view is torn down and mounted again
\* while the key changes and the button is clicked.
MountNext ==
    \/ unmount
    \/ mount
    \/ fetchApiKey
    \/ \E key \in ApiKeys : storageChanged(key)
    \/ handleButtonClick
    \/ closePopup

MountSpec == Init /\ [][MountNext]_vars

\* The awaits of lines 55 and 84 settle: a credential lookup that is pending
\* eventually returns, and a provider call that is pending eventually
\* resolves or rejects.
LiveSpec ==
    /\ Spec
    /\ \A t \in TurnIds :
        /\ WF_vars(credentialLookupReturns(t))
        /\ WF_vars(\E r \in Responses : completionReturns(t, r))

TypeOK ==
    /\ value \in Texts
    /\ apiKey \in ApiKeys
    /\ openApiKey \in ApiKeys
    /\ chatboxExpanded \in BOOLEAN
    /\ showApiKeyPopup \in BOOLEAN
    /\ fetchPending \in BOOLEAN
    /\ lastEnded.called \in BOOLEAN
    /\ \A t \in TurnIds : turns[t].pc \in {"unused", "lookup", "provider", "done"}
    /\ Len(chatHistory) <= 2 * MaxTurns
    /\ mounted \in BOOLEAN
    /\ mounts \in 1..MaxMounts
    /\ listeners \subseteq {changeListener(n) : n \in 1..MaxMounts}

\* ------------------------------------------------------ claim vocabulary

IsPrefix(p, q) == Len(p) <= Len(q) /\ SubSeq(q, 1, Len(p)) = p

userCount(history) ==
    Cardinality({i \in 1..Len(history) : history[i].role = "user"})

assistantCount(history) ==
    Cardinality({i \in 1..Len(history) : history[i].role = "assistant"})

\* A text that is empty or made of blanks only.
IsBlank(text) == \A i \in 1..Len(text) : text[i] = " "

\* The step starts turn t / ends turn t in the way `outcome`.
Starts(t) == turns[t].pc = "unused" /\ turns'[t].pc # "unused"
Ends(t) == turns[t].pc \in {"lookup", "provider"} /\ turns'[t].pc = "done"
EndsAs(t, outcome) == Ends(t) /\ lastEnded'.outcome = outcome

\* ------------------------------------------------------------------- C1

\* C1: a step that accepts a submit (starts a turn) does so from a non-empty
\* input buffer, appends exactly one entry to the store, the user entry
\* (role user, type text, message = the buffer's text verbatim), clears the
\* buffer, and leaves the new turn before its credential lookup has
\* returned and before any provider call; and every turn that is waiting
\* for its lookup or its provider has its user entry in the store.
C1_UserEntryBeforeLookup ==
    [][ /\ \A t \in TurnIds : Starts(t) =>
            /\ Len(value) # 0
            /\ chatHistory' = chatHistory \o
                    <<[role |-> "user", message |-> value, type |-> "text",
                       assistantResponse |-> None]>>
            /\ value' = <<>>
            /\ turns'[t].pc = "lookup"
            /\ turns'[t].request = None
            /\ lastEnded' = lastEnded
        /\ \A t \in TurnIds : turns'[t].pc \in {"lookup", "provider"} =>
            /\ Len(chatHistory') > Len(turns'[t].prev)
            /\ chatHistory'[Len(turns'[t].prev) + 1].role = "user"
            /\ chatHistory'[Len(turns'[t].prev) + 1].message = turns'[t].value
      ]_vars

\* A turn waits for its lookup, its user entry is the last of the store and
\* the input buffer is empty.
C1_Witness ==
    \E t \in TurnIds :
        /\ turns[t].pc = "lookup"
        /\ Len(chatHistory) = Len(turns[t].prev) + 1
        /\ chatHistory[Len(chatHistory)] =
                [role |-> "user", message |-> <<" ">>, type |-> "text",
                 assistantResponse |-> None]
        /\ value = <<>>

\* ------------------------------------------------------------------- C2

\* C2 as stated: while the input buffer is empty or whitespace-only, no step
\* starts a turn (no lookup, no provider call) or adds a user entry.
C2_BlankSubmitIsNoOp ==
    [][ IsBlank(value) =>
            /\ \A t \in TurnIds : ~Starts(t)
            /\ userCount(chatHistory') = userCount(chatHistory) ]_vars

\* C2 amended: while the input buffer is empty (length 0), no step starts a
\* turn or adds a user entry, and a submit leaves buffer, store and turns as
\* they are.
C2_EmptySubmitIsNoOp ==
    [][ Len(value) = 0 =>
            /\ \A t \in TurnIds : ~Starts(t)
            /\ userCount(chatHistory') = userCount(chatHistory)
            /\ \A t \in TurnIds : turns'[t].pc = "lookup" => turns[t].pc = "lookup"
      ]_vars

\* The form is shown, the buffer is empty and a submit could still start a
\* turn were it accepted: the state an empty submit runs in and leaves.
C2_Witness ==
    /\ chatboxExpanded
    /\ Len(value) = 0
    /\ Cardinality(started) < MaxTurns
    /\ Len(chatHistory) > 0

\* ------------------------------------------------------------------- C3

\* C3: at most one turn is waiting for its credential lookup or its
\* provider reply.
C3_AtMostOneTurnInFlight == Cardinality(inFlight) <= 1

\* ------------------------------------------------------------------- C4

\* C4 as stated: when a turn ends because the credential is missing, the
\* store is what it was before the submit of that turn, a prompt is emitted
\* and the turn is over.
C4_StoreAsBeforeSubmit ==
    [][ \A t \in TurnIds :
            EndsAs(t, "credentialMissing") =>
                /\ chatHistory' = turns[t].prev
                /\ lastEnded'.alert
                /\ t \notin inFlight' ]_vars

\* C4 amended: when a turn ends because the credential is missing, the step
\* leaves the store as it is, and the store still holds the entries that
\* preceded the submit followed by the turn's user entry; no assistant entry
\* is added, one prompt is emitted and the turn is over.
C4_StoreKeepsUserEntry ==
    [][ \A t \in TurnIds :
            EndsAs(t, "credentialMissing") =>
                /\ chatHistory' = chatHistory
                /\ IsPrefix(turns[t].prev \o
                        <<[role |-> "user", message |-> turns[t].value,
                           type |-> "text", assistantResponse |-> None]>>,
                        chatHistory')
                /\ assistantCount(chatHistory') = assistantCount(chatHistory)
                /\ lastEnded'.alert
                /\ t \notin inFlight' ]_vars

\* A turn has ended for want of a credential, the prompt was shown, and the
\* store holds just the user entry of that turn.
C4_Witness ==
    /\ lastEnded.outcome = "credentialMissing"
    /\ lastEnded.alert
    /\ inFlight = {}
    /\ Len(chatHistory) = 1
    /\ chatHistory[1].role = "user"

\* ------------------------------------------------------------------- C5

\* C5: a turn whose credential lookup finds the key absent or empty ends
\* there, with the prompt and without a provider call, and a turn that has
\* ended never runs again (so it never calls the provider), whatever
\* happens to the credential.
C5_NoCallWithoutCredential ==
    [][ \A t \in TurnIds :
            /\ (turns[t].pc = "lookup" /\ turns'[t].pc # "lookup"
                    /\ (apiKey = None \/ apiKey = <<"">>)) =>
                 /\ turns'[t].pc = "done"
                 /\ turns'[t].request = None
                 /\ lastEnded'.outcome = "credentialMissing"
                 /\ ~lastEnded'.called
            /\ turns[t].pc = "done" =>
                 /\ turns'[t].pc = "done"
                 /\ turns'[t].request = None ]_vars

\* A turn was aborted for want of a credential and a key was stored later.
C5_Witness ==
    /\ lastEnded.outcome = "credentialMissing"
    /\ ~lastEnded.called
    /\ inFlight = {}
    /\ apiKey = <<"sk-1">>

\* ------------------------------------------------------------------- C6

\* C6: no turn ends with an exception or a rejected promise that escapes,
\* and a turn that has ended is no longer in flight.
C6_FailuresAbsorbed ==
    /\ ~lastEnded.rejected
    /\ lastEnded.outcome # "none" => \E t \in TurnIds : turns[t].pc = "done"

\* ------------------------------------------------------------------- C7

\* C7: a step that ends a turn in any way but a parsed reply (credential
\* missing, provider error, empty completion, malformed JSON, no `output`)
\* leaves the store as it is, so the number of assistant entries too.
C7_NoEntryOnFailure ==
    [][ \A t \in TurnIds :
            (Ends(t) /\ lastEnded'.outcome # "replyParsed") =>
                /\ assistantCount(chatHistory') = assistantCount(chatHistory)
                /\ chatHistory' = chatHistory ]_vars

\* Two turns were submitted, the last to end got a reply without `output`,
\* none is in flight and the store holds the two user entries only.
C7_Witness ==
    /\ lastEnded.outcome = "missingOutput"
    /\ lastEnded.called
    /\ inFlight = {}
    /\ Len(chatHistory) = 2
    /\ assistantCount(chatHistory) = 0

\* ------------------------------------------------------------------- C8

\* C8: a step that ends a turn on a reply that parsed as JSON with a
\* top-level `output` key (whatever `output` is, null included) appends
\* exactly one entry, an assistant entry of type markdown with message 'NA'
\* and a payload.
C8_EntryForEveryOutput ==
    [][ \A t \in TurnIds :
            (Ends(t) /\ lastEnded'.outcome \in {"replyParsed", "outputNull"}) =>
                /\ Len(chatHistory') = Len(chatHistory) + 1
                /\ IsPrefix(chatHistory, chatHistory')
                /\ chatHistory'[Len(chatHistory')].role = "assistant"
                /\ chatHistory'[Len(chatHistory')].type = "markdown"
                /\ chatHistory'[Len(chatHistory')].message = <<"NA">>
                /\ chatHistory'[Len(chatHistory')].assistantResponse # None ]_vars

\* ------------------------------------------------------------------- C9

\* The message sequence C9 describes, for the page `doc` read at call time,
\* the entries `before` the turn's user entry and the submitted `text`.
C9_Expected(doc, before, text) ==
    <<[role |-> "system",
       content |-> systemPromptModified(doc.languageButton,
                                        extractCode(doc.viewLines))]>>
    \o [i \in 1..Len(before) |->
            [role |-> before[i].role, content |-> before[i].message]]
    \o <<[role |-> "user",
          content |-> <<"User Prompt: ">> \o text
                      \o <<"\n\nCode: ">> \o extractCode(doc.viewLines)]>>

\* C9: the request a turn has in flight carries, for the page as it was read
\* when the call was made: the system message with the built prompt, one
\* message (role, content = message) per entry that precedes the turn's own
\* user entry in the store, in store order, and a final user message
\* "User Prompt: " + t + "\n\nCode: " + c, where t is the message of the
\* turn's own user entry (the submitted text) and c the extracted code.
C9_RequestMessages ==
    \A t \in TurnIds : turns[t].pc = "provider" =>
        /\ Len(chatHistory) > Len(turns[t].prev)
        /\ \E doc \in Documents :
            Get(turns[t].request).messages =
                C9_Expected(doc,
                            SubSeq(chatHistory, 1, Len(turns[t].prev)),
                            chatHistory[Len(turns[t].prev) + 1].message)

\* The second turn's request is in flight: its history is the first turn's
\* user and assistant entries and its last message carries the submitted
\* text and the code of the page.
C9_Witness ==
    \E t \in TurnIds :
        /\ turns[t].pc = "provider"
        /\ Len(turns[t].prev) = 2
        /\ chatHistory[2].role = "assistant"
        /\ Len(Get(turns[t].request).messages) = 4
        /\ Get(turns[t].request).messages[3] = [role |-> "assistant", content |-> <<"NA">>]
        /\ Get(turns[t].request).messages[4].content =
                <<"User Prompt: ", " ", "\n\nCode: ", "a = 1", "\n", "b = 2">>
        /\ value = <<>>

\* ------------------------------------------------------------------ C10

\* C10: every step leaves the store as it is or adds one entry at its tail:
\* the store before is a prefix of the store after, at most one longer.
C10_AppendOnly ==
    [][ /\ IsPrefix(chatHistory, chatHistory')
        /\ Len(chatHistory') <= Len(chatHistory) + 1 ]_vars

\* The store holds two turns' entries, the chat box has been hidden again
\* and the credential removed.
C10_Witness ==
    /\ Len(chatHistory) = 4
    /\ chatHistory[2].role = "assistant"
    /\ lastEnded.outcome = "replyParsed"
    /\ ~chatboxExpanded
    /\ apiKey = None

\* ------------------------------------------------------------------ C11

\* The template with every occurrence of each placeholder replaced by its
\* own field's value, the values taken verbatim, in one pass.
RECURSIVE C11_Substituted(_, _, _, _)
C11_Substituted(template, statement, language, code) ==
    IF template = <<>> THEN <<>>
    ELSE (CASE Head(template) = "{{problem_statement}}" -> statement
            [] Head(template) = "{{programming_language}}" -> language
            [] Head(template) = "{{user_code}}" -> code
            [] OTHER -> <<Head(template)>>)
         \o C11_Substituted(Tail(template), statement, language, code)

\* C11: the system message of a request in flight is the template with each
\* placeholder replaced by its own value verbatim, for the page the request
\* was built from (the page whose code the request's last message carries).
C11_PromptVerbatim ==
    \A t \in TurnIds : turns[t].pc = "provider" =>
        \E doc \in Documents :
            LET messages == Get(turns[t].request).messages IN
            /\ messages[Len(messages)].content =
                    <<"User Prompt: ">> \o turns[t].value
                    \o <<"\n\nCode: ">> \o extractCode(doc.viewLines)
            /\ messages[1].content =
                    C11_Substituted(SYSTEM_PROMPT, problemStatement,
                                    programmingLanguage(doc.languageButton),
                                    extractCode(doc.viewLines))

\* ------------------------------------------------------------------ C12

\* C12 as stated: a step in which no submit is accepted leaves the store as
\* it is, so two reads with no submit between them are equal.
C12_ReadsEqualWithoutSubmit ==
    [][ (\A t \in TurnIds : ~Starts(t)) => chatHistory' = chatHistory ]_vars

\* C12 amended: a step in which no submit is accepted and no turn ends with
\* a parsed reply leaves the store as it is, so two reads with neither a
\* submit nor a handled reply between them are equal, also while turns are
\* awaiting their lookup or their reply.
C12_ReadsEqualWithoutSubmitOrReply ==
    [][ ( /\ \A t \in TurnIds : ~Starts(t)
          /\ \A t \in TurnIds : ~EndsAs(t, "replyParsed") )
        => chatHistory' = chatHistory ]_vars

\* A turn is awaiting its reply with its user entry in the store, another
\* has ended without a reply entry, and the chat box has been hidden.
C12_Witness ==
    /\ \E t \in TurnIds : turns[t].pc = "provider"
    /\ lastEnded.outcome \in {"credentialMissing", "emptyCompletion"}
    /\ Len(chatHistory) = 2
    /\ ~chatboxExpanded

\* ------------------------------------------------------------------ C13

\* The sequence s without its i-th element.
C13_Without(s, i) == SubSeq(s, 1, i - 1) \o SubSeq(s, i + 1, Len(s))

\* C13: in the step that issues a turn's provider call, the history
\* messages of the request (all but the first and the last) are, in order,
\* the entries the store holds at that moment, the turn's own user entry
\* left out.
C13_HistoryIsFullStore ==
    [][ \A t \in TurnIds :
            (turns[t].pc = "lookup" /\ turns'[t].pc = "provider") =>
                LET messages == Get(turns'[t].request).messages
                    others == C13_Without(chatHistory, Len(turns[t].prev) + 1)
                IN  SubSeq(messages, 2, Len(messages) - 1) =
                        [i \in 1..Len(others) |->
                            [role |-> others[i].role,
                             content |-> others[i].message]] ]_vars

\* ------------------------------------------------------------------ C16

\* C16: every entry of the store is a user entry (type text, a non-empty
\* message, no payload) or an assistant entry (type markdown, message 'NA',
\* a payload), and every assistant message of a request in flight has the
\* content 'NA'.
C16_EntryShape ==
    /\ \A i \in 1..Len(chatHistory) :
        \/ /\ chatHistory[i].role = "user"
           /\ chatHistory[i].type = "text"
           /\ Len(chatHistory[i].message) > 0
           /\ chatHistory[i].assistantResponse = None
        \/ /\ chatHistory[i].role = "assistant"
           /\ chatHistory[i].type = "markdown"
           /\ chatHistory[i].message = <<"NA">>
           /\ chatHistory[i].assistantResponse # None
           /\ DOMAIN chatHistory[i].assistantResponse[1] =
                {"feedback", "hints", "snippet", "programmingLanguage"}
    /\ \A t \in TurnIds : turns[t].pc = "provider" =>
        \A i \in 1..Len(Get(turns[t].request).messages) :
            Get(turns[t].request).messages[i].role = "assistant" =>
                Get(turns[t].request).messages[i].content = <<"NA">>

\* The store holds a user entry and an assistant entry whose payload has a
\* feedback, and the request in flight replays that entry as 'NA'.
C16_Witness ==
    /\ Len(chatHistory) = 3
    /\ chatHistory[2].role = "assistant"
    /\ chatHistory[2].assistantResponse[1].feedback = <<[t |-> "string", s |-> "f"]>>
    /\ chatHistory[3].role = "user"
    /\ \E t \in TurnIds :
        /\ turns[t].pc = "provider"
        /\ Get(turns[t].request).messages[3].role = "assistant"

\* ------------------------------------------------------------------ C17

\* C17: a step that appends the assistant entry of a turn finds that turn's
\* own user entry at the tail of the store, and every assistant entry of the
\* store comes right after a user entry.
C17_RepliesPaired ==
    [][ /\ \A t \in TurnIds :
            EndsAs(t, "replyParsed") =>
                Len(chatHistory) = Len(turns[t].prev) + 1
        /\ \A i \in 1..Len(chatHistory') :
            chatHistory'[i].role = "assistant" =>
                (i > 1 /\ chatHistory'[i - 1].role = "user") ]_vars

\* ------------------------------------------------------------------ C18

\* C18 (as stated): whenever the chat box is expanded, a credential is
\* cached.
C18_ExpandedOnlyWithCredential == chatboxExpanded => openApiKey # None

\* C18 (amended): the chat box is expanded or collapsed only by a step taken
\* while a credential is cached; a step that loses the cached credential
\* leaves the chat box as it is, expanded included; the popup opens only in a
\* step taken with no cached credential, and no step taken with no cached
\* credential changes chatboxExpanded.
C18_ToggledOnlyWithCredential ==
    [][ /\ chatboxExpanded' # chatboxExpanded =>
            (openApiKey # None /\ openApiKey' = openApiKey)
        /\ openApiKey' # openApiKey => chatboxExpanded' = chatboxExpanded
        /\ (showApiKeyPopup' /\ ~showApiKeyPopup) => openApiKey = None
        /\ openApiKey = None => chatboxExpanded' = chatboxExpanded ]_vars

\* The credential was removed while the chat box was expanded, and a click
\* has then opened the popup: the chat box is still expanded.
C18_Witness ==
    /\ chatboxExpanded
    /\ openApiKey = None
    /\ showApiKeyPopup
    /\ apiKey = None
    /\ ~fetchPending

\* ------------------------------------------------------------------ C14

C14_Outcomes ==
    {"credentialMissing", "providerError", "emptyCompletion", "malformedJson",
     "resultNotObject", "missingOutput", "outputNull", "replyParsed"}

\* C14: when the lookups and provider calls return, every turn in flight
\* eventually is over; a turn moves only forward (lookup, provider, over), a
\* turn that is over stays over, a turn ends before its provider call only
\* for a missing credential, and the step that ends it gives it one outcome.
C14_TurnRunsToCompletion ==
    /\ \A t \in TurnIds :
        (turns[t].pc \in {"lookup", "provider"}) ~> (turns[t].pc = "done")
    /\ [][ \A t \in TurnIds :
            /\ turns[t].pc = "lookup" =>
                 turns'[t].pc \in {"lookup", "provider", "done"}
            /\ turns[t].pc = "provider" => turns'[t].pc \in {"provider", "done"}
            /\ turns[t].pc = "done" => turns'[t].pc = "done"
            /\ (Ends(t) /\ turns[t].pc = "lookup") =>
                 (credentialMissing(apiKey) /\ lastEnded'.outcome = "credentialMissing")
            /\ (Ends(t) /\ turns[t].pc = "provider") =>
                 lastEnded'.outcome \in C14_Outcomes \ {"credentialMissing"} ]_vars

\* Every turn has been in flight and is over, the last of them by a provider
\* error after its call.
C14_Witness ==
    /\ \A t \in TurnIds : turns[t].pc = "done"
    /\ lastEnded.outcome = "providerError"
    /\ lastEnded.called

\* ------------------------------------------------------------------ C15

\* C15: while the view is mounted exactly the listener it registered is
\* registered, once it is torn down none is, so there are never more
\* registered listeners than mounted views.
C15_ListenerRemovedOnTeardown ==
    /\ mounted => listeners = {changeListener(mounts)}
    /\ ~mounted => listeners = {}
    /\ Cardinality(listeners) <= (IF mounted THEN 1 ELSE 0)

====
